---- MODULE Spec2Model ----
(***************************************************************************)
(* A model of rst_lsp.database.tinydb.Database: the four TinyDB tables     *)
(* (classes, documents, elements, linting), the two write operations       *)
(* (update_conf_file, update_doc) and the read queries.                    *)
(*                                                                         *)
(* A table is the sequence of its documents in doc_id (insertion) order.   *)
(* A document is a function from field names to values.  Scalar values of  *)
(* caller-supplied fields are strings; the Python value None is the        *)
(* string "None".                                                          *)
(***************************************************************************)
EXTENDS Integers, Sequences, FiniteSets, TLC

VARIABLES tbl_classes, tbl_documents, tbl_elements, tbl_linting,
          elements_by, linting_by, last_op, last_conf, last_doc, ret

vars == <<tbl_classes, tbl_documents, tbl_elements, tbl_linting,
          elements_by, linting_by, last_op, last_conf, last_doc, ret>>

tables == <<tbl_classes, tbl_documents, tbl_elements, tbl_linting>>

-----------------------------------------------------------------------------
(* Bounds of the model. *)

\* longest elements list handed to one update_doc call
MaxElems == 2
\* longest lints list handed to one update_doc call
MaxLints == 1
\* update_doc is not taken when it would leave more rows than this in the
\* elements table or in the linting table
MaxRows == 2

-----------------------------------------------------------------------------
(* Values. *)

None == "None"
Uris == {"u1", "u2"}
Names == {"a", "b"}
\* values returned by datetime.utcnow().isoformat()
Times == {"t1", "t2"}
EndLines == {1, 2}

\* the result of Table.get when no document matches
NoDoc == [k \in {} |-> k]

\* how a call ended: its key argument (None when it has none), the value it
\* returned (NoDoc is the None of a call that returns no document) and the
\* exception it raised (None when it returned)
Returned(arg, val, exc) == [arg |-> arg, val |-> val, exc |-> exc]

Range(s) == {s[i] : i \in DOMAIN s}

\* dict.update: the entries of b replace those of a
DictUpdate(a, b) == b @@ a

\* a Python dict: its items in insertion order, the keys distinct
Dicts(keys, objs) ==
    {d \in UNION {[1..n -> keys \X objs] : n \in 0..Cardinality(keys)} :
        \A i, j \in DOMAIN d : d[i][1] = d[j][1] => i = j}

Keys(d) == {d[i][1] : i \in DOMAIN d}

\* the lists of length at most maxn over a set
Lists(S, maxn) == UNION {[1..n -> S] : n \in 0..maxn}

-----------------------------------------------------------------------------
(* The objects the catalog is extracted from. *)

Role1 == ("__doc__" :> "doc of role 1") @@ ("__module__" :> "m1")
Role2 == ("__doc__" :> None) @@ ("__module__" :> "m2")
RoleObjs == {Role1, Role2}

Directive1 ==
    ("__doc__" :> "doc of directive 1") @@ ("__module__" :> "m1")
    @@ ("__name__" :> "Directive1") @@ ("required_arguments" :> 1)
    @@ ("optional_arguments" :> 0) @@ ("has_content" :> TRUE)
    @@ ("option_spec" :> ("class" :> ("__name__" :> "class_option")))
Directive2 ==
    ("__doc__" :> None) @@ ("__module__" :> "m2")
    @@ ("__name__" :> "Directive2") @@ ("required_arguments" :> 0)
    @@ ("optional_arguments" :> 1) @@ ("has_content" :> FALSE)
    @@ ("option_spec" :> NoDoc)
\* a function-style directive: it has none of the class attributes
DirectiveFn ==
    ("__doc__" :> None) @@ ("__module__" :> "m3") @@ ("__name__" :> "fn")
DirectiveObjs == {Directive1, DirectiveFn}

\* inspect.getdoc(obj) or ""
getdoc_or_empty(obj) == IF obj["__doc__"] = None THEN "" ELSE obj["__doc__"]

get_role_json(name, role) ==
    ("element" :> "role") @@ ("name" :> name)
    @@ ("description" :> getdoc_or_empty(role))
    @@ ("module" :> role["__module__"])

DirectiveAttrs == {"__module__", "__name__", "required_arguments",
                   "optional_arguments", "has_content", "option_spec"}

\* get_directive_json raises AttributeError when an attribute is missing
get_directive_json_raises(direct) == ~(DirectiveAttrs \subseteq DOMAIN direct)

get_directive_json(name, direct) ==
    ("element" :> "directive") @@ ("name" :> name)
    @@ ("description" :> getdoc_or_empty(direct))
    @@ ("klass" :> <<direct["__module__"], ".", direct["__name__"]>>)
    @@ ("required_arguments" :> direct["required_arguments"])
    @@ ("optional_arguments" :> direct["optional_arguments"])
    @@ ("has_content" :> direct["has_content"])
    @@ ("options" :>
          IF DOMAIN direct["option_spec"] # {}
          THEN [k \in DOMAIN direct["option_spec"] |->
                    direct["option_spec"][k]["__name__"]]
          ELSE NoDoc)

-----------------------------------------------------------------------------
(* The TinyDB table primitives the Database calls. *)

\* where(key) == value; a document without the key does not match
WhereEq(doc, key, value) == key \in DOMAIN doc /\ doc[key] = value

\* where(key).one_of(items)
WhereOneOf(doc, key, items) == key \in DOMAIN doc /\ doc[key] \in Range(items)

\* A query is the sequence of the tests it is the conjunction of.
Eq(key, value) == <<[test |-> "==", key |-> key, value |-> value]>>
OneOf(key, items) == <<[test |-> "one_of", key |-> key, items |-> items]>>
And(query1, query2) == query1 \o query2

Test(doc, key_query) ==
    IF key_query.test = "one_of"
    THEN WhereOneOf(doc, key_query.key, key_query.items)
    ELSE WhereEq(doc, key_query.key, key_query.value)

Matches(doc, query) == \A i \in DOMAIN query : Test(doc, query[i])

Insert(tbl, doc) == Append(tbl, doc)

InsertMultiple(tbl, docs) == tbl \o docs

Remove(tbl, cond) == SelectSeq(tbl, LAMBDA d : ~Matches(d, cond))

Search(tbl, cond) == SelectSeq(tbl, LAMBDA d : Matches(d, cond))

All(tbl) == tbl

Get(tbl, cond) ==
    IF Search(tbl, cond) = <<>> THEN NoDoc ELSE Head(Search(tbl, cond))

\* Table.upsert: update every matching document, insert when none matches
Upsert(tbl, doc, cond) ==
    IF \E i \in DOMAIN tbl : Matches(tbl[i], cond)
    THEN [i \in DOMAIN tbl |->
             IF Matches(tbl[i], cond) THEN DictUpdate(tbl[i], doc)
             ELSE tbl[i]]
    ELSE Insert(tbl, doc)

\* the entries of a sequence kept parallel to tbl, after tbl.remove(cond)
RemoveBy(tbl, by, cond) ==
    LET F[i \in 0..Len(tbl)] ==
            IF i = 0 THEN <<>>
            ELSE IF Matches(tbl[i], cond) THEN F[i - 1]
            ELSE Append(F[i - 1], by[i])
    IN  F[Len(tbl)]

-----------------------------------------------------------------------------
(* Database._update_classes, lines 80-91. *)

\* the variant test left out: every row of the table
IsAnyClass == <<>>

IsRole == Eq("element", "role")
IsDirective == Eq("element", "directive")

\* line 81 left out: the earlier role rows stay
RolesKept(classes) == classes

RolesRemoved(classes) == Remove(classes, IsRole)

\* line 85 left out: the earlier directive rows stay
DirectivesKept(classes) == classes

DirectivesRemoved(classes) == Remove(classes, IsDirective)

RoleDocs(roles) ==
    [i \in DOMAIN roles |-> get_role_json(roles[i][1], roles[i][2])]

DirectiveDocs(directives) ==
    [i \in DOMAIN directives |->
        get_directive_json(directives[i][1], directives[i][2])]

\* the refresh left out
_update_classes_skipped(classes, roles, directives) ==
    [classes |-> classes, exc |-> None]

\* the table the call leaves behind and the exception it raises, if any
_update_classes(classes, roles, directives) ==
    LET c2 == InsertMultiple(RolesRemoved(classes), RoleDocs(roles))
        c3 == DirectivesRemoved(c2)
    IN  IF \E i \in DOMAIN directives :
               get_directive_json_raises(directives[i][2])
        THEN [classes |-> c3, exc |-> "AttributeError"]
        ELSE [classes |-> InsertMultiple(c3, DirectiveDocs(directives)),
              exc |-> None]

-----------------------------------------------------------------------------
(* Database.update_conf_file, lines 93-104. *)

IsConfiguration == Eq("dtype", "configuration")

\* line 95 left out: the earlier configuration record stays
ConfigurationKept(documents) == documents

\* the condition of the remove left out: every document goes
DocumentsPurged(documents) == <<>>

ConfigurationRemoved(documents) == Remove(documents, IsConfiguration)

ConfigurationDoc(uri, now) ==
    ("dtype" :> "configuration") @@ ("uri" :> uri) @@ ("modified" :> now)

ConfigurationInserted(documents, uri, now) ==
    IF uri # None THEN Insert(documents, ConfigurationDoc(uri, now))
    ELSE documents

\* whether a configuration file was set before the call
HasConfiguration(documents) ==
    \E i \in DOMAIN documents : Matches(documents[i], IsConfiguration)

\* whether the catalog had, before the call, a name that the call does not
\* bring again
Dropped(classes, roles, directives) ==
    \E i \in DOMAIN classes :
        \/ /\ Matches(classes[i], IsRole)
           /\ classes[i]["name"] \notin Keys(roles)
        \/ /\ Matches(classes[i], IsDirective)
           /\ classes[i]["name"] \notin Keys(directives)

update_conf_file(uri, roles, directives, now) ==
    LET r == _update_classes(tbl_classes, roles, directives)
    IN  /\ tbl_documents' =
              ConfigurationInserted(ConfigurationRemoved(tbl_documents),
                                    uri, now)
        /\ tbl_classes' = r.classes
        /\ last_op' = "update_conf_file"
        /\ last_conf' = [called |-> TRUE, uri |-> uri, roles |-> roles,
                         directives |-> directives, exc |-> r.exc,
                         had |-> HasConfiguration(tbl_documents),
                         dropped |-> Dropped(tbl_classes, roles, directives)]
        /\ ret' = Returned(None, NoDoc, r.exc)
        /\ UNCHANGED <<tbl_elements, tbl_linting, elements_by, linting_by,
                       last_doc>>

-----------------------------------------------------------------------------
(* Database.update_doc, lines 133-170. *)

\* doc = {"uri": uri}; doc.update(element)
InjectUri(uri, element) == DictUpdate(("uri" :> uri), element)

DbDocs(uri, items) == [i \in DOMAIN items |-> InjectUri(uri, items[i])]

_update_doc_lint(linting, uri, lints) ==
    InsertMultiple(Remove(linting, Eq("uri", uri)),
                   DbDocs(uri, lints))

_update_doc_elements(elements, uri, elems) ==
    InsertMultiple(Remove(elements, Eq("uri", uri)),
                   DbDocs(uri, elems))

\* the uri argument of the call that wrote each row, parallel to the table
WrittenBy(tbl, by, uri, items) ==
    RemoveBy(tbl, by, Eq("uri", uri)) \o [i \in DOMAIN items |-> uri]

\* the dtype test left out
IsRstUriOnly(uri) == Eq("uri", uri)

IsRst(uri) == And(Eq("dtype", "rst"), Eq("uri", uri))

\* whether update_doc was called for the uri before
HasRst(documents, uri) ==
    \E i \in DOMAIN documents : Matches(documents[i], IsRst(uri))

RstDoc(uri, endline, endchar, now) ==
    ("dtype" :> "rst") @@ ("uri" :> uri) @@ ("modified" :> now)
    @@ ("endline" :> endline) @@ ("endchar" :> endchar)

\* insert in the place of upsert
RstInserted(documents, uri, endline, endchar, now) ==
    Insert(documents, RstDoc(uri, endline, endchar, now))

RstUpserted(documents, uri, endline, endchar, now) ==
    Upsert(documents, RstDoc(uri, endline, endchar, now), IsRst(uri))

update_doc(uri, endline, endchar, elems, lints, now) ==
    /\ tbl_documents' = RstUpserted(tbl_documents, uri, endline, endchar, now)
    /\ tbl_elements' = _update_doc_elements(tbl_elements, uri, elems)
    /\ tbl_linting' = _update_doc_lint(tbl_linting, uri, lints)
    /\ Len(tbl_elements') <= MaxRows
    /\ Len(tbl_linting') <= MaxRows
    /\ elements_by' = WrittenBy(tbl_elements, elements_by, uri, elems)
    /\ linting_by' = WrittenBy(tbl_linting, linting_by, uri, lints)
    /\ last_op' = "update_doc"
    /\ last_doc' = [uri |-> uri, endline |-> endline, endchar |-> endchar,
                    elements |-> elems, lints |-> lints,
                    again |-> HasRst(tbl_documents, uri)]
    /\ ret' = Returned(None, NoDoc, None)
    /\ UNCHANGED <<tbl_classes, last_conf>>

-----------------------------------------------------------------------------
(* The read queries, lines 106-131 and 172-221. *)

\* the arguments of a query: the NotSet() default, a list, or a scalar
\* (None included)
NotSet == [kind |-> "NotSet"]
List(items) == [kind |-> "list", items |-> items]
Val(v) == [kind |-> "value", v |-> v]

query_conf_file == Get(tbl_documents, IsConfiguration)

query_role(name) == Get(tbl_classes, And(IsRole, Eq("name", name)))

query_roles(names) ==
    IF names = Val(None) THEN Search(tbl_classes, IsRole)
    ELSE Search(tbl_classes, And(IsRole, OneOf("name", names.items)))

query_directive(name) ==
    Get(tbl_classes, And(IsDirective, Eq("name", name)))

query_directives(names) ==
    IF names = Val(None) THEN Search(tbl_classes, IsDirective)
    ELSE Search(tbl_classes, And(IsDirective, OneOf("name", names.items)))

query_doc(uri) == Get(tbl_documents, IsRst(uri))

query_docs(uris) ==
    IF uris = Val(None) THEN Search(tbl_documents, Eq("dtype", "rst"))
    ELSE Search(tbl_documents,
                And(Eq("dtype", "rst"), OneOf("uri", uris.items)))

\* an empty list taken for an unset argument
IsNotSetOrEmpty(value) ==
    value.kind = "NotSet" \/ (value.kind = "list" /\ value.items = <<>>)

\* None taken for an unset argument
IsNotSetOrNone(value) ==
    value.kind = "NotSet" \/ (value.kind = "value" /\ value.v = None)

\* isinstance(value, NotSet)
IsNotSet(value) == value.kind = "NotSet"

\* a list compared by equality as a scalar is: no field value equals it
KeyQueryEqOnly(value, key) ==
    IF value.kind = "list" THEN OneOf(key, <<>>) ELSE Eq(key, value.v)

\* lines 207-210: membership for a list or tuple, equality otherwise
KeyQuery(value, key) ==
    IF value.kind = "list" THEN OneOf(key, value.items) ELSE Eq(key, value.v)

\* query = None
NoQuery == [none |-> TRUE, cond |-> <<>>]

\* the query so far forgotten: only the last test counts
QueryAndLast(query, key_query) == [none |-> FALSE, cond |-> key_query]

\* lines 211-214: the conjunction of the query so far and one more test
QueryAnd(query, key_query) ==
    [none |-> FALSE, cond |-> And(query.cond, key_query)]

\* lines 196-214: the loop over the (value, key) pairs
ComposeQuery(pairs) ==
    LET F[i \in 0..Len(pairs)] ==
            IF i = 0 THEN NoQuery
            ELSE IF IsNotSet(pairs[i][1]) THEN F[i - 1]
            ELSE QueryAnd(F[i - 1], KeyQuery(pairs[i][1], pairs[i][2]))
    IN  F[Len(pairs)]

\* no constraint taken for a constraint nothing satisfies
QueryResultNoneEmpty(elements, query) ==
    IF query.none THEN <<>> ELSE Search(elements, query.cond)

\* lines 216-218
QueryResult(elements, query) ==
    IF query.none THEN All(elements) ELSE Search(elements, query.cond)

\* kwargs is the sequence of the <<key, value>> items of **kwargs
query_elements(name, etype, uri, lineno, section_uuid, uuid, kwargs) ==
    QueryResult(tbl_elements,
        ComposeQuery(<<<<uri, "uri">>, <<etype, "type">>, <<name, "element">>,
                       <<lineno, "lineno">>, <<section_uuid, "section_uuid">>,
                       <<uuid, "uuid">>>>
                     \o [i \in DOMAIN kwargs |-> <<kwargs[i][2], kwargs[i][1]>>]))

query_lint(uri) == Search(tbl_linting, Eq("uri", uri))

-----------------------------------------------------------------------------
(* The inputs of the calls. *)

Element1 == ("element" :> "section") @@ ("type" :> "Block") @@ ("lineno" :> "1")
Element2 == ("element" :> "role") @@ ("lineno" :> None) @@ ("foo" :> "bar")
\* a caller's element that has a key named uri
Element3 ==
    ("uri" :> "u2") @@ ("element" :> "role") @@ ("type" :> "Inline")
    @@ ("foo" :> "bar")
ElementInputs == {Element1, Element2, Element3}

Lint1 == ("msg" :> "warning")
\* a caller's lint that has a key named uri
Lint2 == ("uri" :> "u1") @@ ("msg" :> "error")
LintInputs == {Lint1, Lint2}

-----------------------------------------------------------------------------
(* The state after Database.__init__, lines 25-62: four empty tables. *)

Init ==
    /\ tbl_classes = <<>>
    /\ tbl_documents = <<>>
    /\ tbl_elements = <<>>
    /\ tbl_linting = <<>>
    /\ elements_by = <<>>
    /\ linting_by = <<>>
    /\ last_op = "__init__"
    /\ last_conf = [called |-> FALSE, uri |-> None, roles |-> <<>>,
                    directives |-> <<>>, exc |-> None, had |-> FALSE,
                    dropped |-> FALSE]
    /\ last_doc = [uri |-> None, endline |-> 1, endchar |-> 0,
                   elements |-> <<>>, lints |-> <<>>, again |-> FALSE]
    /\ ret = Returned(None, NoDoc, None)

\* the small catalog of the document workloads
SetConfFile ==
    \E uri \in {None, "u1"} :
        update_conf_file(uri, <<<<"a", Role1>>>>, <<<<"a", Directive1>>>>, "t1")

\* Documents are indexed with elements and lints, some of which have a key
\* named uri.
UpdateDoc ==
    \E uri \in Uris,
       elems \in Lists({Element1, Element3}, MaxElems),
       lints \in Lists(LintInputs, MaxLints) :
        update_doc(uri, 1, 0, elems, lints, "t2")

Next == SetConfFile \/ UpdateDoc

Spec == Init /\ [][Next]_vars

\* The configuration file is set to every uri and to none, also by calls
\* that fail in the catalog refresh, while documents are indexed again and
\* again.
UpdateConfFile ==
    \E uri \in Uris \cup {None}, now \in Times,
       directives \in Dicts({"a"}, {Directive2, DirectiveFn}) :
        update_conf_file(uri, <<<<"a", Role1>>>>, directives, now)

UpsertDoc ==
    \E uri \in Uris, endline \in EndLines, now \in Times :
        update_doc(uri, endline, 0, <<Element1>>, <<Lint1>>, now)

NextDocuments == UpdateConfFile \/ UpsertDoc

SpecDocuments == Init /\ [][NextDocuments]_vars

\* The catalog is refreshed with roles dicts of each role object and of
\* each set of names and with every directives dict, next to a small
\* document workload.
RefreshConfFile ==
    \E uri \in {None, "u1"},
       roles \in Dicts({"a"}, RoleObjs) \cup Dicts(Names, {Role1}),
       directives \in Dicts(Names, DirectiveObjs) :
        update_conf_file(uri, roles, directives, "t1")

IndexDoc == update_doc("u1", 1, 0, <<Element1>>, <<Lint1>>, "t2")

NextCatalog == RefreshConfFile \/ IndexDoc

SpecCatalog == Init /\ [][NextCatalog]_vars

\* Documents are indexed with every list of elements, next to a small catalog
\* and lint workload.
IndexElements ==
    \E uri \in Uris, elems \in Lists(ElementInputs, MaxElems) :
        update_doc(uri, 1, 0, elems, <<Lint1>>, "t2")

NextElements == SetConfFile \/ IndexElements

SpecElements == Init /\ [][NextElements]_vars

\* The single-record queries are called between the updates of a small store.
Queried(op, arg, val) ==
    /\ last_op' = op
    /\ ret' = Returned(arg, val, None)
    /\ UNCHANGED <<tbl_classes, tbl_documents, tbl_elements, tbl_linting,
                   elements_by, linting_by, last_conf, last_doc>>

QueryConfFile == Queried("query_conf_file", None, query_conf_file)

QueryRole == \E name \in Names : Queried("query_role", name, query_role(name))

QueryDirective ==
    \E name \in Names :
        Queried("query_directive", name, query_directive(name))

QueryDoc == \E uri \in Uris : Queried("query_doc", uri, query_doc(uri))

OpenDoc == \E uri \in Uris : update_doc(uri, 1, 0, <<>>, <<>>, "t2")

NextQueries ==
    \/ SetConfFile
    \/ OpenDoc
    \/ QueryConfFile
    \/ QueryRole
    \/ QueryDirective
    \/ QueryDoc

SpecQueries == Init /\ [][NextQueries]_vars

\* Documents are indexed with elements and lints that have no key named uri.
IndexPlain ==
    \E uri \in Uris, endline \in EndLines,
       elems \in Lists({Element1, Element2}, MaxElems),
       lints \in Lists({Lint1}, MaxLints) :
        update_doc(uri, endline, 0, elems, lints, "t2")

NextPlain == SetConfFile \/ IndexPlain

SpecPlain == Init /\ [][NextPlain]_vars

-----------------------------------------------------------------------------
(* The claims. *)

\* C1: query_conf_file returns at most one record; after update_conf_file
\* calls, interleaved with update_doc calls, it is the record of the uri of
\* the most recent call, and None when that call passed uri=None.
C1_SingletonConfiguration ==
    /\ Len(Search(tbl_documents, IsConfiguration)) <= 1
    /\ last_conf.called =>
          IF last_conf.uri = None
          THEN query_conf_file = NoDoc
          ELSE WhereEq(query_conf_file, "uri", last_conf.uri)
    /\ ~last_conf.called => query_conf_file = NoDoc

\* a configuration file replaced by another, and a document indexed since
C1_Witness ==
    /\ last_conf.had
    /\ last_conf.uri = "u2"
    /\ last_op = "update_doc"
    /\ WhereEq(query_conf_file, "uri", "u2")

\* C2: the documents table holds at most one row with dtype "rst" for
\* each uri.
C2_OneRstRowPerUri ==
    \A u \in Uris :
        Len(Search(tbl_documents, IsRst(u))) <= 1

\* update_doc called again for a uri that is also the configuration file's
C2_Witness ==
    /\ last_op = "update_doc"
    /\ last_doc.again
    /\ Len(Search(tbl_documents, IsRst(last_doc.uri))) = 1
    /\ WhereEq(query_conf_file, "uri", last_doc.uri)

\* the row the store is to write for a caller's element or lint: the mapping
\* with the uri of the call injected
Injected(uri, item) == ("uri" :> uri) @@ item

\* the number of rows that calls of update_doc for the uri wrote
CountWrittenFor(by, uri) == Cardinality({i \in DOMAIN by : by[i] = uri})

\* C3: right after update_doc is called again for a uri, there is exactly
\* one rst document row for it, query_docs([uri]), query_elements(uri=uri)
\* and query_lint(uri) return the payload of this call, and no element or
\* lint row an earlier call for the uri wrote remains.
C3_SecondCallReplacesPayload ==
    (last_op = "update_doc" /\ last_doc.again) =>
        LET u == last_doc.uri
        IN  /\ Len(query_docs(List(<<u>>))) = 1
            /\ WhereEq(query_doc(u), "endline", last_doc.endline)
            /\ WhereEq(query_doc(u), "endchar", last_doc.endchar)
            /\ query_elements(NotSet, NotSet, Val(u), NotSet, NotSet, NotSet,
                              <<>>)
                 = [i \in DOMAIN last_doc.elements |->
                        Injected(u, last_doc.elements[i])]
            /\ query_lint(u)
                 = [i \in DOMAIN last_doc.lints |->
                        Injected(u, last_doc.lints[i])]
            /\ CountWrittenFor(elements_by, u) = Len(last_doc.elements)
            /\ CountWrittenFor(linting_by, u) = Len(last_doc.lints)

\* C4: every element row and every lint row carries the uri argument of the
\* update_doc call that wrote it.
C4_UriOfTheCall ==
    /\ \A i \in DOMAIN tbl_elements :
          WhereEq(tbl_elements[i], "uri", elements_by[i])
    /\ \A i \in DOMAIN tbl_linting :
          WhereEq(tbl_linting[i], "uri", linting_by[i])

\* the number of rows with the name
CountNamed(rows, name) ==
    Cardinality({i \in DOMAIN rows : WhereEq(rows[i], "name", name)})

\* C5: after update_conf_file has returned, query_roles() holds exactly one
\* row per key of the roles it was called with and query_directives() exactly
\* one row per key of its directives; rows of earlier refreshes are gone.
C5_CatalogReplaced ==
    (last_conf.called /\ last_conf.exc = None) =>
        /\ Len(query_roles(Val(None))) = Len(last_conf.roles)
        /\ Len(query_directives(Val(None))) = Len(last_conf.directives)
        /\ \A k \in Keys(last_conf.roles) :
              CountNamed(query_roles(Val(None)), k) = 1
        /\ \A k \in Keys(last_conf.directives) :
              CountNamed(query_directives(Val(None)), k) = 1

\* a refresh that brought roles and directives and dropped an earlier name
C5_Witness ==
    /\ last_conf.called
    /\ last_conf.exc = None
    /\ last_conf.dropped
    /\ last_conf.roles # <<>>
    /\ last_conf.directives # <<>>

SameRows(t1, t2) ==
    \A d \in Range(t1) \cup Range(t2) :
        Cardinality({i \in DOMAIN t1 : t1[i] = d})
            = Cardinality({i \in DOMAIN t2 : t2[i] = d})

\* C6: a call of update_conf_file, whether it returns or raises, leaves in
\* the classes table either the rows it found or the complete rows of the
\* roles and directives it was called with.
C6_AtomicRefresh ==
    [][last_op' = "update_conf_file" =>
          \/ SameRows(tbl_classes', tbl_classes)
          \/ /\ last_conf'.exc = None
             /\ SameRows(tbl_classes',
                         RoleDocs(last_conf'.roles)
                             \o DirectiveDocs(last_conf'.directives))]_vars

\* C7: no two rows of the classes table have the same element and name.
C7_UniqueNames ==
    \A i, j \in DOMAIN tbl_classes :
        (/\ tbl_classes[i]["element"] = tbl_classes[j]["element"]
         /\ tbl_classes[i]["name"] = tbl_classes[j]["name"]) => i = j

\* two roles and a directive with the name of one of them, after a refresh
\* that dropped an earlier name
C7_Witness ==
    /\ last_conf.dropped
    /\ Len(query_roles(Val(None))) = 2
    /\ \E n \in Names : query_role(n) # NoDoc /\ query_directive(n) # NoDoc

\* query_elements(uri=value), every other argument unset
ElementsOfUri(value) ==
    query_elements(NotSet, NotSet, value, NotSet, NotSet, NotSet, <<>>)

\* C8: query_elements() with every argument unset returns every row of the
\* elements table.
C8_NoConstraintReturnsAll ==
    query_elements(NotSet, NotSet, NotSet, NotSet, NotSet, NotSet, <<>>)
        = tbl_elements

\* rows of two uris in the elements table
C8_Witness ==
    \E i, j \in DOMAIN tbl_elements :
        tbl_elements[i]["uri"] # tbl_elements[j]["uri"]

\* C9: query_elements(uri=[]) returns no row.
C9_EmptyListMatchesNothing == ElementsOfUri(List(<<>>)) = <<>>

\* a full elements table
C9_Witness == Len(tbl_elements) = MaxRows

\* uris asked for: those of the documents and one no document has
QueryUris == Uris \cup {"u3"}

\* C10: query_elements(uri=[u]) and query_elements(uri=u) return the same
\* rows, for every uri u.
C10_ListOfOneIsEquality ==
    \A u \in QueryUris : ElementsOfUri(List(<<u>>)) = ElementsOfUri(Val(u))

\* a uri that selects some rows of the table and not all
C10_Witness ==
    \E u \in QueryUris :
        /\ ElementsOfUri(List(<<u>>)) # <<>>
        /\ ElementsOfUri(List(<<u>>)) # tbl_elements

\* the keys of an element that query_elements takes as extra keyword
\* constraints
ExtraKeys(element) ==
    DOMAIN element \ {"uri", "type", "element", "lineno", "section_uuid",
                      "uuid"}

\* query_elements(**{key: value}), every named argument unset
ElementsWith(key, value) ==
    query_elements(NotSet, NotSet, NotSet, NotSet, NotSet, NotSet,
                   <<<<key, Val(value)>>>>)

\* C11: until update_doc is called again, every element of the last
\* update_doc call is stored as a row with the uri of the call and every
\* field of the element intact, and for each extra field of the element
\* query_elements(field=value) returns that row.
C11_ExtraFieldRoundTrip ==
    \A i \in DOMAIN last_doc.elements :
        LET e == last_doc.elements[i]
        IN  \E j \in DOMAIN tbl_elements :
                /\ elements_by[j] = last_doc.uri
                /\ tbl_elements[j]["uri"] = last_doc.uri
                /\ DOMAIN tbl_elements[j] = DOMAIN e \cup {"uri"}
                /\ \A k \in DOMAIN e \ {"uri"} : tbl_elements[j][k] = e[k]
                /\ \A k \in ExtraKeys(e) :
                      tbl_elements[j] \in Range(ElementsWith(k, e[k]))

SingleQueries == {"query_doc", "query_role", "query_directive",
                  "query_conf_file"}

\* the rows a single-record query is about: a row of the wanted kind (and
\* of the wanted uri or name, for the queries that take one)
Wanted(op, arg) ==
    CASE op = "query_conf_file" ->
           {i \in DOMAIN tbl_documents :
               tbl_documents[i]["dtype"] = "configuration"}
      [] op = "query_doc" ->
           {i \in DOMAIN tbl_documents :
               /\ tbl_documents[i]["dtype"] = "rst"
               /\ tbl_documents[i]["uri"] = arg}
      [] op = "query_role" ->
           {i \in DOMAIN tbl_classes :
               /\ tbl_classes[i]["element"] = "role"
               /\ tbl_classes[i]["name"] = arg}
      [] op = "query_directive" ->
           {i \in DOMAIN tbl_classes :
               /\ tbl_classes[i]["element"] = "directive"
               /\ tbl_classes[i]["name"] = arg}

\* C12: a call of query_doc, query_role, query_directive or query_conf_file
\* raises nothing, leaves the four tables as they were and, when no row of
\* the wanted kind and key exists, returns None.
C12_AbsentIsNone ==
    [][last_op' \in SingleQueries =>
          /\ ret'.exc = None
          /\ tables' = tables
          /\ Wanted(last_op', ret'.arg) = {} => ret'.val = NoDoc]_vars

\* query_doc(uri) returned None in a store whose configuration record has
\* that uri
C12_Witness ==
    /\ last_op = "query_doc"
    /\ ret.val = NoDoc
    /\ \E i \in DOMAIN tbl_documents :
          /\ tbl_documents[i]["dtype"] = "configuration"
          /\ tbl_documents[i]["uri"] = ret.arg

\* the constraints asked for: unset, a scalar, or a list
NameArgs == {NotSet, Val("role"), List(<<"role", "section">>)}
TypeArgs == {NotSet, Val("Inline")}
UriArgs == {NotSet, Val("u2")}
LinenoArgs == {NotSet, Val(None)}
KwArgs == {NotSet, Val("bar")}

Kwargs(foo) == IF foo = NotSet THEN <<>> ELSE <<<<"foo", foo>>>>

\* the row has the field and its value is the one (one of those) asked for
Satisfies(row, field, value) ==
    /\ field \in DOMAIN row
    /\ IF value.kind = "list"
          THEN \E i \in DOMAIN value.items : value.items[i] = row[field]
          ELSE row[field] = value.v

\* the stored field each argument constrains, for the arguments that are set
Constraints(name, etype, uri, lineno, foo) ==
    {c \in {<<"element", name>>, <<"type", etype>>, <<"uri", uri>>,
             <<"lineno", lineno>>, <<"foo", foo>>} : c[2] # NotSet}

\* the query with the one constraint c and every other argument unset
Single(c) ==
    query_elements(IF c[1] = "element" THEN c[2] ELSE NotSet,
                   IF c[1] = "type" THEN c[2] ELSE NotSet,
                   IF c[1] = "uri" THEN c[2] ELSE NotSet,
                   IF c[1] = "lineno" THEN c[2] ELSE NotSet,
                   NotSet, NotSet,
                   IF c[1] = "foo" THEN Kwargs(c[2]) ELSE <<>>)

\* C13: query_elements returns, in table order, exactly the rows that have
\* every constrained field with a value asked for (name constrains
\* "element", etype constrains "type", the others the field of their own
\* name); these are the rows that every single-constraint query returns.
C13_ConstraintsAreAnded ==
    \A name \in NameArgs, etype \in TypeArgs, uri \in UriArgs,
       lineno \in LinenoArgs, foo \in KwArgs :
        LET cs == Constraints(name, etype, uri, lineno, foo)
            rows == query_elements(name, etype, uri, lineno, NotSet, NotSet,
                                   Kwargs(foo))
        IN  /\ rows = SelectSeq(tbl_elements,
                         LAMBDA d : \A c \in cs : Satisfies(d, c[1], c[2]))
            /\ rows = SelectSeq(tbl_elements,
                         LAMBDA d : \A c \in cs : d \in Range(Single(c)))
            /\ \A c \in cs, i \in DOMAIN rows : c[1] \in DOMAIN rows[i]

\* name="role" selects two rows, and etype="Inline" with it only one of
\* them, the other having no field "type"
C13_Witness ==
    LET roles == query_elements(Val("role"), NotSet, NotSet, NotSet, NotSet,
                                NotSet, <<>>)
        both == query_elements(Val("role"), Val("Inline"), NotSet, NotSet,
                               NotSet, NotSet, <<>>)
    IN  /\ Len(roles) = 2
        /\ Len(both) = 1
        /\ \E i \in DOMAIN roles : "type" \notin DOMAIN roles[i]

\* query_elements(lineno=value), every other argument unset
ElementsOfLineno(value) ==
    query_elements(NotSet, NotSet, NotSet, value, NotSet, NotSet, <<>>)

\* C14: query_elements(lineno=None) returns exactly the rows that have a
\* field lineno whose value is None, and so differs from query_elements()
\* whenever some row has another lineno or none.
C14_NoneIsAFilter ==
    /\ ElementsOfLineno(Val(None)) =
          SelectSeq(tbl_elements,
                    LAMBDA d : "lineno" \in DOMAIN d /\ d["lineno"] = None)
    /\ (\E i \in DOMAIN tbl_elements :
            \/ "lineno" \notin DOMAIN tbl_elements[i]
            \/ tbl_elements[i]["lineno"] # None)
          => ElementsOfLineno(Val(None)) # ElementsOfLineno(NotSet)

\* one row with lineno None is returned, one row without lineno is not
C14_Witness ==
    /\ Len(tbl_elements) = 2
    /\ Len(ElementsOfLineno(Val(None))) = 1
    /\ \E i \in DOMAIN tbl_elements : "lineno" \notin DOMAIN tbl_elements[i]

\* lists of names and of uris asked for, some of them in no row
NameLists == {<<>>, <<"a">>, <<"b">>, <<"a", "b">>, <<"c">>}
UriLists == {<<>>, <<"u1">>, <<"u1", "u2">>, <<"u3">>}

\* the rows of a table with field = value, in table order
RowsOf(tbl, field, value) ==
    SelectSeq(tbl, LAMBDA d : field \in DOMAIN d /\ d[field] = value)

\* those of the rows whose key field has one of the items
Among(rows, key, items) ==
    SelectSeq(rows, LAMBDA d : \E i \in DOMAIN items : d[key] = items[i])

\* C15: query_roles, query_directives and query_docs return the rows of
\* their variant, all of them for None and those with a listed name or uri
\* for a list (none for the empty list); query_doc and query_docs never
\* return the configuration record, and query_role and query_directive
\* never return a row of the other variant.
C15_VariantRestricted ==
    LET roles == RowsOf(tbl_classes, "element", "role")
        directives == RowsOf(tbl_classes, "element", "directive")
        docs == RowsOf(tbl_documents, "dtype", "rst")
    IN  /\ query_roles(Val(None)) = roles
        /\ query_directives(Val(None)) = directives
        /\ query_docs(Val(None)) = docs
        /\ \A l \in NameLists :
              /\ query_roles(List(l)) = Among(roles, "name", l)
              /\ query_directives(List(l)) = Among(directives, "name", l)
        /\ \A l \in UriLists : query_docs(List(l)) = Among(docs, "uri", l)
        /\ query_roles(List(<<>>)) = <<>>
        /\ query_directives(List(<<>>)) = <<>>
        /\ query_docs(List(<<>>)) = <<>>
        /\ \A u \in QueryUris :
              query_doc(u) # NoDoc => query_doc(u)["dtype"] = "rst"
        /\ \A n \in Names :
              /\ query_role(n) # NoDoc => query_role(n)["element"] = "role"
              /\ query_directive(n) # NoDoc =>
                    query_directive(n)["element"] = "directive"

\* a role and a directive share a name, and the configuration record has
\* the uri of an indexed document
C15_Witness ==
    /\ \E n \in Names : query_role(n) # NoDoc /\ query_directive(n) # NoDoc
    /\ \E i, j \in DOMAIN tbl_documents :
          /\ tbl_documents[i]["dtype"] = "configuration"
          /\ tbl_documents[j]["dtype"] = "rst"
          /\ tbl_documents[i]["uri"] = tbl_documents[j]["uri"]
    /\ Len(query_docs(List(<<"u1">>))) = 1

\* the values of a field in the rows, in row order
Column(rows, field) == [i \in DOMAIN rows |-> rows[i][field]]

\* the keys of a dict, in the order of its items
KeyList(d) == [i \in DOMAIN d |-> d[i][1]]

\* C16: after a call of update_conf_file the configuration records are
\* those of that call, none when its uri is None and one with its uri
\* otherwise, also when the catalog refresh that follows raised; and the
\* catalog is refreshed with the roles and directives of the call whatever
\* its uri: the role rows are its roles and, when it returned, the directive
\* rows are its directives.
C16_NoneRemovesRecord ==
    last_conf.called =>
        /\ Column(RowsOf(tbl_documents, "dtype", "configuration"), "uri")
              = IF last_conf.uri = None THEN <<>> ELSE <<last_conf.uri>>
        /\ Column(RowsOf(tbl_classes, "element", "role"), "name")
              = KeyList(last_conf.roles)
        /\ last_conf.exc = None =>
              Column(RowsOf(tbl_classes, "element", "directive"), "name")
                  = KeyList(last_conf.directives)

\* update_conf_file(None, ...) found a configuration record and returned
\* after bringing roles and directives
C16_Witness ==
    /\ last_conf.called
    /\ last_conf.uri = None
    /\ last_conf.had
    /\ last_conf.exc = None
    /\ last_conf.roles # <<>>
    /\ last_conf.directives # <<>>
    /\ tbl_documents # <<>>

\* C17: from a call of update_doc(u, ...) until the next call of update_doc,
\* query_elements(uri=u) returns the rows of the elements of that call, in
\* the order of the elements argument, and query_lint(u) the rows of its
\* lints, in the order of the lints argument.
C17_SuppliedOrder ==
    last_doc.uri # None =>
        /\ ElementsOfUri(Val(last_doc.uri))
              = [i \in DOMAIN last_doc.elements |->
                     Injected(last_doc.uri, last_doc.elements[i])]
        /\ query_lint(last_doc.uri)
              = [i \in DOMAIN last_doc.lints |->
                     Injected(last_doc.uri, last_doc.lints[i])]

\* the rows of a table that are not keyed by the uri
RowsOfOthers(tbl, uri) ==
    SelectSeq(tbl, LAMBDA d : "uri" \notin DOMAIN d \/ d["uri"] # uri)

\* C18: a call of update_doc(uri, ...) leaves the classes table, the
\* configuration record and the rst document rows, element rows and lint
\* rows of every other uri as they were.
C18_UpdateDocFrame ==
    [][last_op' = "update_doc" =>
          /\ tbl_classes' = tbl_classes
          /\ RowsOf(tbl_documents', "dtype", "configuration")
                = RowsOf(tbl_documents, "dtype", "configuration")
          /\ RowsOfOthers(RowsOf(tbl_documents', "dtype", "rst"),
                          last_doc'.uri)
                = RowsOfOthers(RowsOf(tbl_documents, "dtype", "rst"),
                               last_doc'.uri)
          /\ RowsOfOthers(tbl_elements', last_doc'.uri)
                = RowsOfOthers(tbl_elements, last_doc'.uri)
          /\ RowsOfOthers(tbl_linting', last_doc'.uri)
                = RowsOfOthers(tbl_linting, last_doc'.uri)]_vars

\* C19: a call of update_conf_file leaves every rst document row, every
\* element row and every lint row as it was.
C19_ConfFileFrame ==
    [][last_op' = "update_conf_file" =>
          /\ RowsOf(tbl_documents', "dtype", "rst")
                = RowsOf(tbl_documents, "dtype", "rst")
          /\ tbl_elements' = tbl_elements
          /\ tbl_linting' = tbl_linting]_vars

\* update_conf_file was called with the uri of an indexed document, after
\* an earlier configuration record, and the rows of the document are there
C19_Witness ==
    /\ last_op = "update_conf_file"
    /\ last_conf.had
    /\ last_conf.uri # None
    /\ query_doc(last_conf.uri) # NoDoc
    /\ ElementsOfUri(Val(last_conf.uri)) # <<>>
    /\ query_lint(last_conf.uri) # <<>>

\* C20: every row of the elements table and of the linting table has a uri
\* for which there is an rst document row.
C20_NoOrphanRows ==
    /\ \A i \in DOMAIN tbl_elements :
          query_doc(tbl_elements[i]["uri"]) # NoDoc
    /\ \A i \in DOMAIN tbl_linting :
          query_doc(tbl_linting[i]["uri"]) # NoDoc

====
